---- MODULE Spec2Model ----
(***************************************************************************)
(* raur: an AUR + pacman helper (src/src/main.rs).                         *)
(*                                                                         *)
(* One invocation of the binary is modelled: the parsed command line, the  *)
(* position of main and of the handler it dispatched to, the trace of      *)
(* every external effect (subprocesses, the HTTP request, filesystem and   *)
(* stdin/stdout calls) with the outcome the environment gave it, the       *)
(* printed messages, the build workspaces on disk and the exit code.       *)
(***************************************************************************)
EXTENDS Integers, Sequences, FiniteSets, TLC

VARIABLES cli, pc, idx, input, resp, log, out, cacheExists, ws, exit

vars == <<cli, pc, idx, input, resp, log, out, cacheExists, ws, exit>>

(***************************************************************************)
(* Bounds of the model.                                                    *)
(***************************************************************************)
MaxPkgs == 2
MaxLineLen == 2
MaxResults == 11

Names == {"foo", "bar"}
Queries == {"q1", "q2"}
BodyChars == {"y", "Y", "n", " "}

(***************************************************************************)
(* Program constants.                                                      *)
(***************************************************************************)
\* stdout.lines().take(10)
MaxOfficialLines == 10
\* resp.results.iter().take(10)
MaxRows == 10

Null == "<null>"
\* `resp` before the response is parsed (no value), then <<response>>
NoResp == <<>>
NotExited == 0 - 1

Min(a, b) == IF a < b THEN a ELSE b

(***************************************************************************)
(* Values the environment can hand to the program.                         *)
(***************************************************************************)
\* Command::status(): Err when the child cannot be spawned or waited for,
\* otherwise an exit status that is success ("ok") or not ("fail").
StatusResults == {"ok", "fail", "spawnerr"}

\* Command::output(): as status(), plus the captured stdout (its number of
\* lines; 0 lines is the empty output). search_packages prints up to
\* MaxOfficialLines of them, install_package only reads whether there are any.
StdoutLines == {0, 1, MaxOfficialLines + 1}
OutputResults(lineCounts) ==
    {[res |-> "spawnerr", lines |-> 0]}
        \cup [res : {"ok", "fail"}, lines : lineCounts]

\* What read_line can return: a body without line terminator (end of input)
\* or a body followed by one "\n".
Bodies == UNION {[1..k -> BodyChars] : k \in 0..MaxLineLen}
Lines == Bodies \cup {Append(b, "\n") : b \in Bodies}

\* The JSON envelopes the AUR endpoint can answer with: resultcount and
\* results are two independent fields of AurResponse.
NullSets == {S \in SUBSET (1..MaxResults) : Cardinality(S) <= 1} \cup {1..MaxResults}
AurPackage(i, nulls) ==
    [name |-> i, version |-> i,
     description |-> IF i \in nulls THEN Null ELSE "text"]
ResultSeqs ==
    {[i \in 1..n |-> AurPackage(i, nulls)] : n \in 0..MaxResults, nulls \in NullSets}
AurResponse == [resultcount : (0 - 1)..(MaxResults + 1), results : ResultSeqs]

\* A workspace directory: absent, or present with the files in it. A file is
\* tagged with the install attempt that wrote it; 0 is a file from before
\* this invocation.
Absent == [exists |-> FALSE, files |-> {}]
Dir(files) == [exists |-> TRUE, files |-> files]

(***************************************************************************)
(* Cli / Commands (clap derive).                                           *)
(***************************************************************************)
Subcommands == {"search", "install", "remove", "update", "upgrade"}

PkgLists == UNION {[1..k -> Names] : k \in 0..MaxPkgs}

Cli(sub, query, pacman_only, aur_only, packages, flag) ==
    [sub |-> sub, query |-> query, pacman_only |-> pacman_only,
     aur_only |-> aur_only, packages |-> packages,
     cascade |-> (sub = "install" /\ flag), purge |-> (sub = "remove" /\ flag),
     full |-> (sub \in {"update", "upgrade"} /\ flag)]

CommandLines ==
    {Cli("search", q, p, a, <<>>, FALSE) : q \in Queries, p \in BOOLEAN, a \in BOOLEAN}
        \cup {Cli(s, "", FALSE, FALSE, ps, f) :
                s \in {"install", "remove"}, ps \in PkgLists, f \in BOOLEAN}
        \cup {Cli(s, "", FALSE, FALSE, <<>>, f) :
                s \in {"update", "upgrade", "frobnicate"}, f \in BOOLEAN}

\* Cli::parse(): the subcommand must be one of Commands; no flag conflicts
\* with another one (there is no conflicts_with on pacman_only / aur_only).
ParseAccepts(c) == c.sub \in Subcommands

(***************************************************************************)
(* Trace and message records.                                              *)
(***************************************************************************)
Call(op, args, at, res, lines) ==
    [op |-> op, args |-> args, at |-> at, res |-> res, lines |-> lines]

Msg(m, at) == [msg |-> m, at |-> at, rows |-> <<>>]

FatalResults == {"spawnerr", "ioerr", "neterr", "jsonerr"}

\* faulty variant: a non-zero exit status is returned as an error too
Propagates_NonZero(res) == res # "ok"
\* faulty variant: an error is swallowed
Propagates_Never(res) == FALSE
\* The `?` operator on an io::Result / reqwest::Result: the Err variant is
\* returned from the handler, an exit status is not an Err.
Propagates(res) == res \in FatalResults

Init ==
    /\ cli \in CommandLines
    /\ pc = "parse"
    /\ idx = 0
    /\ input = <<>>
    /\ resp = NoResp
    /\ log = <<>>
    /\ out = <<>>
    /\ cacheExists \in BOOLEAN
    /\ ws \in [Names -> {Absent, Dir({}), Dir({0})}]
    /\ (~cacheExists => \A n \in Names : ws[n] = Absent)
    \* the cache directory is read by install_package only
    /\ (cli.sub # "install" => ~cacheExists)
    /\ exit = NotExited

Parse ==
    /\ pc = "parse"
    /\ UNCHANGED <<cli, idx, input, resp, log, out, cacheExists, ws>>
    /\ IF ParseAccepts(cli) THEN pc' = cli.sub /\ exit' = exit
       ELSE pc' = "done" /\ exit' = 2

(***************************************************************************)
(* main: what follows a handler's return (lines 74-92).                    *)
(***************************************************************************)
\* `?` in main on an Err: main returns it, the runtime prints it and the
\* process exits with a failure code.
ReturnErr(printed) ==
    /\ pc' = "done"
    /\ exit' = 1
    /\ out' = Append(printed, Msg("Error", idx))
    /\ UNCHANGED idx

\* Ok(()) from a handler that main calls once.
ReturnOk(printed) ==
    /\ pc' = "done"
    /\ exit' = 0
    /\ out' = printed
    /\ UNCHANGED idx

\* Ok(()) from a handler called in `for pkg in packages`: the next package,
\* or the end of main.
LoopNext(printed) ==
    /\ out' = printed
    /\ IF idx < Len(cli.packages)
       THEN pc' = cli.sub /\ idx' = idx + 1 /\ exit' = exit
       ELSE pc' = "done" /\ idx' = idx /\ exit' = 0

\* The entry of the package loops: the first package, if there is one.
LoopEnter ==
    /\ pc \in {"install", "remove"}
    /\ idx = 0
    /\ UNCHANGED <<cli, input, resp, log, cacheExists, ws>>
    /\ IF Len(cli.packages) > 0
       THEN pc' = pc /\ idx' = 1 /\ exit' = exit /\ out' = out
       ELSE pc' = "done" /\ idx' = 0 /\ exit' = 0 /\ out' = out

(***************************************************************************)
(* search_packages (lines 98-147).                                         *)
(***************************************************************************)
RECURSIVE take(_, _)
take(s, n) ==
    IF n = 0 \/ s = <<>> THEN <<>> ELSE <<Head(s)>> \o take(Tail(s), n - 1)

QueriesOfficial(pacman_only, aur_only) == ~aur_only

\* faulty variant: --aur-only overrides --pacman-only
QueriesAur_BothFlags(pacman_only, aur_only) == aur_only \/ ~pacman_only
QueriesAur(pacman_only, aur_only) == ~pacman_only

\* lines 99-116
SearchOfficial ==
    /\ pc = "search"
    /\ UNCHANGED <<cli, input, resp, cacheExists, ws>>
    /\ LET started == Append(out, Msg("Searching", 0)) IN
       IF ~QueriesOfficial(cli.pacman_only, cli.aur_only)
       THEN /\ log' = log
            /\ pc' = "search_aur" /\ out' = started /\ UNCHANGED <<idx, exit>>
       ELSE \E o \in OutputResults(StdoutLines) :
            /\ log' = Append(log, Call("pacman", <<"-Ss", cli.query>>, 0, o.res, o.lines))
            /\ IF Propagates(o.res) THEN ReturnErr(started)
               ELSE /\ pc' = "search_aur"
                    /\ UNCHANGED <<idx, exit>>
                    /\ out' =
                         IF o.lines # 0
                         THEN started \o
                              <<Msg("FoundOfficial", 0),
                                [msg |-> "OfficialLines", at |-> 0,
                                 rows |-> take([i \in 1..o.lines |-> i], MaxOfficialLines)]>>
                         ELSE Append(started, Msg("NotFoundOfficial", 0))

Url(query) == <<"https://aur.archlinux.org/rpc/?v=5&type=search&arg=", query>>

RenderRow(pkg) ==
    [name |-> pkg.name, version |-> pkg.version,
     description |-> IF pkg.description = Null THEN "No description"
                     ELSE pkg.description]

\* faulty variant: every result is rendered
RenderedRows_NoCap(results) == [i \in 1..Len(results) |-> RenderRow(results[i])]
RenderedRows(results) ==
    LET shown == take(results, MaxRows) IN
    [i \in 1..Len(shown) |-> RenderRow(shown[i])]

\* lines 118-146
SearchAur ==
    /\ pc = "search_aur"
    /\ UNCHANGED <<cli, input, cacheExists, ws>>
    /\ IF ~QueriesAur(cli.pacman_only, cli.aur_only)
       THEN /\ UNCHANGED <<log, resp>>
            /\ ReturnOk(out)
       ELSE \/ \E e \in {"neterr", "jsonerr"} :
                 /\ log' = Append(log, Call("http_get", Url(cli.query), 0, e, 0))
                 /\ UNCHANGED resp
                 /\ ReturnErr(out)
            \/ \E r \in AurResponse :
                 /\ log' = Append(log, Call("http_get", Url(cli.query), 0, "ok", 0))
                 /\ resp' = <<r>>
                 /\ IF r.resultcount > 0
                    THEN ReturnOk(out \o
                           <<[msg |-> "FoundAur", at |-> r.resultcount, rows |-> <<>>],
                             [msg |-> "Table", at |-> 0,
                              rows |-> RenderedRows(r.results)]>>)
                    ELSE ReturnOk(Append(out, Msg("NotFoundAur", 0)))

(***************************************************************************)
(* install_package (lines 152-219).                                        *)
(***************************************************************************)
\* ExitStatus::success()
\* faulty variant: the exit status is not looked at
success_Always(res) == TRUE
success(res) == res = "ok"

PkgName == cli.packages[idx]

\* lines 176-177, 181: the value of HOME, or "/tmp" without one, is one fixed
\* string for the whole invocation
HomeDir == "<HOME or /tmp>"
CacheDir == <<HomeDir, "/.cache/raur">>
TempDir(pkgname) == CacheDir \o <<"/", pkgname>>

\* line 158: !pacman_check.stdout.is_empty()
\* faulty variant: the exit status decides instead of the output
OfficialFound_ByStatus(o) == success(o.res)
OfficialFound(o) == o.lines # 0

\* lines 154-158
InstallCheck ==
    /\ pc = "install"
    /\ idx >= 1
    /\ UNCHANGED <<cli, input, resp, cacheExists, ws>>
    /\ \E o \in OutputResults({0, 1}) :
         /\ log' = Append(log, Call("pacman", <<"-Ss", PkgName>>, idx, o.res, o.lines))
         /\ IF Propagates(o.res) THEN ReturnErr(out)
            ELSE /\ pc' = IF OfficialFound(o) THEN "inst_official" ELSE "inst_cache"
                 /\ UNCHANGED <<idx, out, exit>>

\* lines 159-171
InstallOfficial ==
    /\ pc = "inst_official"
    /\ UNCHANGED <<cli, input, resp, cacheExists, ws>>
    /\ \E r \in StatusResults :
         LET started == Append(out, Msg("InstallingOfficial", idx)) IN
         /\ log' = Append(log, Call("sudo", <<"pacman", "-S", PkgName, "--noconfirm">>,
                                    idx, r, 0))
         /\ IF Propagates(r) THEN ReturnErr(started)
            ELSE LoopNext(Append(started,
                     Msg(IF success(r) THEN "InstalledOfficial" ELSE "FailedOfficial",
                         idx)))

\* lines 174-180
InstallCacheDir ==
    /\ pc = "inst_cache"
    /\ UNCHANGED <<cli, input, resp, ws>>
    /\ LET started == Append(out, Msg("BuildingFromAur", idx)) IN
       IF ~cacheExists
       THEN \E r \in {"ok", "ioerr"} :
              /\ log' = Append(log, Call("create_dir_all", CacheDir, idx, r, 0))
              /\ IF Propagates(r)
                 THEN UNCHANGED cacheExists /\ ReturnErr(started)
                 ELSE /\ cacheExists' = TRUE
                      /\ pc' = "inst_clean" /\ out' = started
                      /\ UNCHANGED <<idx, exit>>
       ELSE /\ UNCHANGED <<log, cacheExists>>
            /\ pc' = "inst_clean" /\ out' = started
            /\ UNCHANGED <<idx, exit>>

\* line 182: Path::new(&temp_dir).exists()
\* faulty variant: the old workspace is never found, hence never deleted
WorkspaceExists_Never(w) == FALSE
WorkspaceExists(w) == w.exists

\* lines 181-184
InstallCleanWorkspace ==
    /\ pc = "inst_clean"
    /\ UNCHANGED <<cli, input, resp, cacheExists>>
    /\ IF WorkspaceExists(ws[PkgName])
       THEN \E r \in {"ok", "ioerr"} :
              /\ log' = Append(log, Call("remove_dir_all", TempDir(PkgName), idx, r, 0))
              /\ IF Propagates(r)
                 THEN \* the tree may have been deleted in part
                      /\ \E left \in SUBSET ws[PkgName].files :
                           ws' = [ws EXCEPT ![PkgName] = Dir(left)]
                      /\ ReturnErr(out)
                 ELSE /\ ws' = [ws EXCEPT ![PkgName] = Absent]
                      /\ pc' = "inst_clone"
                      /\ UNCHANGED <<idx, out, exit>>
       ELSE /\ UNCHANGED <<log, ws>>
            /\ pc' = "inst_clone"
            /\ UNCHANGED <<idx, out, exit>>

\* git clone <url> <dir>: what the child can do to the destination and how it
\* can exit. It refuses a destination that is not empty; when it fails it
\* removes what it created, or leaves a partial checkout if it was killed.
GitClone(w, attempt) ==
    {[res |-> "spawnerr", after |-> w]}
        \cup (IF w.exists /\ w.files # {}
              THEN {[res |-> "fail", after |-> w]}
              ELSE {[res |-> "ok", after |-> Dir({attempt})],
                    [res |-> "fail", after |-> w],
                    [res |-> "fail", after |-> Dir({attempt})]})

\* line 189: !status.success()
\* faulty variant: the build goes on after a failed clone
CloneFailed_Never(res) == FALSE
CloneFailed(res) == ~success(res)

\* lines 186-192
InstallClone ==
    /\ pc = "inst_clone"
    /\ UNCHANGED <<cli, input, resp, cacheExists>>
    /\ \E g \in GitClone(ws[PkgName], idx) :
         /\ log' = Append(log,
                Call("git", <<"clone", <<"https://aur.archlinux.org/", PkgName, ".git">>,
                              TempDir(PkgName)>>, idx, g.res, 0))
         /\ ws' = [ws EXCEPT ![PkgName] = g.after]
         /\ IF Propagates(g.res) THEN ReturnErr(out)
            ELSE IF CloneFailed(g.res)
            THEN LoopNext(Append(out, Msg("GitCloneFailed", idx)))
            ELSE /\ pc' = "inst_build"
                 /\ UNCHANGED <<idx, out, exit>>

\* line 204
MakepkgArgs(cascade) ==
    IF cascade THEN <<"-sci", "--noconfirm">> ELSE <<"-si", "--noconfirm">>

\* lines 194-218; the child is started in temp_dir (current_dir), which it
\* cannot be when that directory does not exist
InstallBuild ==
    /\ pc = "inst_build"
    /\ UNCHANGED <<cli, input, resp, cacheExists, ws>>
    /\ \E r \in (IF ws[PkgName].exists THEN StatusResults ELSE {"spawnerr"}) :
         LET started == Append(out, Msg("Building", idx)) IN
         /\ log' = Append(log, Call("makepkg", MakepkgArgs(cli.cascade), idx, r, 0))
         /\ IF Propagates(r) THEN ReturnErr(started)
            ELSE LoopNext(Append(started,
                     Msg(IF success(r) THEN "InstalledAur" ELSE "FailedAur", idx)))

(***************************************************************************)
(* remove_package (lines 224-248).                                         *)
(***************************************************************************)
\* str::trim: leading and trailing whitespace removed
IsWhitespace(c) == c \in {" ", "\n"}

RECURSIVE trim_start(_)
trim_start(s) ==
    IF s # <<>> /\ IsWhitespace(Head(s)) THEN trim_start(Tail(s)) ELSE s

RECURSIVE trim_end(_)
trim_end(s) ==
    IF s # <<>> /\ IsWhitespace(s[Len(s)])
    THEN trim_end(SubSeq(s, 1, Len(s) - 1)) ELSE s

trim(s) == trim_end(trim_start(s))

\* str::to_lowercase
to_lowercase(s) == [i \in 1..Len(s) |-> IF s[i] = "Y" THEN "y" ELSE s[i]]

\* line 229: input.trim().to_lowercase() != "y", negated
\* faulty variant: any answer that starts with y confirms
Confirmed_Prefix(line) ==
    LET t == to_lowercase(trim(line)) IN t # <<>> /\ Head(t) = "y"
Confirmed(line) == to_lowercase(trim(line)) = <<"y">>

\* lines 225-228
RemovePrompt ==
    /\ pc = "remove"
    /\ idx >= 1
    /\ UNCHANGED <<cli, resp, cacheExists, ws>>
    /\ LET asked == Append(out, Msg("Prompt", idx))
           flushed == Append(log, Call("flush", <<>>, idx, "ok", 0)) IN
       \/ /\ log' = Append(log, Call("flush", <<>>, idx, "ioerr", 0))
          /\ UNCHANGED input
          /\ ReturnErr(asked)
       \/ /\ log' = Append(flushed, Call("read_line", <<>>, idx, "ioerr", 0))
          /\ UNCHANGED input
          /\ ReturnErr(asked)
       \/ \E line \in Lines :
            /\ log' = Append(flushed, Call("read_line", <<>>, idx, "ok", 0))
            /\ input' = line
            /\ pc' = "rm_confirm" /\ out' = asked
            /\ UNCHANGED <<idx, exit>>

\* lines 229-232
RemoveConfirm ==
    /\ pc = "rm_confirm"
    /\ UNCHANGED <<cli, resp, log, cacheExists, ws>>
    /\ IF ~Confirmed(input)
       THEN /\ input' = <<>>
            /\ LoopNext(Append(out, Msg("Aborted", idx)))
       ELSE /\ pc' = "rm_exec"
            /\ UNCHANGED <<input, idx, out, exit>>

\* line 234
RemoveArgs(purge, pkgname) ==
    IF purge THEN <<"-Rns", pkgname, "--noconfirm">>
    ELSE <<"-Rs", pkgname, "--noconfirm">>

\* lines 234-247
RemoveExec ==
    /\ pc = "rm_exec"
    /\ UNCHANGED <<cli, resp, cacheExists, ws>>
    /\ input' = <<>>
    /\ \E r \in StatusResults :
         /\ log' = Append(log, Call("sudo", <<"pacman">> \o RemoveArgs(cli.purge, PkgName),
                                    idx, r, 0))
         /\ IF Propagates(r) THEN ReturnErr(out)
            ELSE LoopNext(Append(out,
                     Msg(IF success(r) THEN "Removed" ELSE "FailedRemove", idx)))

(***************************************************************************)
(* update_database (lines 253-267) and upgrade_system (lines 272-287).     *)
(***************************************************************************)
\* line 254
SyncArgs(full) == IF full THEN <<"-Syy">> ELSE <<"-Sy">>

SyncCall(r) == Call("sudo", <<"pacman">> \o SyncArgs(cli.full), 0, r, 0)
SyncMsg(r) == Msg(IF success(r) THEN "DatabaseSynced" ELSE "DatabaseSyncFailed", 0)

\* main, line 88: update_database(*full)?
Update ==
    /\ pc = "update"
    /\ UNCHANGED <<cli, input, resp, cacheExists, ws>>
    /\ \E r \in StatusResults :
         /\ log' = Append(log, SyncCall(r))
         /\ IF Propagates(r) THEN ReturnErr(out)
            ELSE ReturnOk(Append(out, SyncMsg(r)))

\* line 273: update_database(full)?
UpgradeSync ==
    /\ pc = "upgrade"
    /\ UNCHANGED <<cli, input, resp, cacheExists, ws>>
    /\ \E r \in StatusResults :
         /\ log' = Append(log, SyncCall(r))
         /\ IF Propagates(r) THEN ReturnErr(out)
            ELSE /\ pc' = "upg_run"
                 /\ out' = Append(out, SyncMsg(r))
                 /\ UNCHANGED <<idx, exit>>

\* lines 275-286
UpgradeRun ==
    /\ pc = "upg_run"
    /\ UNCHANGED <<cli, input, resp, cacheExists, ws>>
    /\ \E r \in StatusResults :
         /\ log' = Append(log, Call("sudo", <<"pacman", "-Syu", "--noconfirm">>, 0, r, 0))
         /\ IF Propagates(r) THEN ReturnErr(out)
            ELSE ReturnOk(Append(out,
                     Msg(IF success(r) THEN "Upgraded" ELSE "UpgradeFailed", 0)))

Next ==
    \/ Parse
    \/ LoopEnter
    \/ SearchOfficial
    \/ SearchAur
    \/ InstallCheck
    \/ InstallOfficial
    \/ InstallCacheDir
    \/ InstallCleanWorkspace
    \/ InstallClone
    \/ InstallBuild
    \/ RemovePrompt
    \/ RemoveConfirm
    \/ RemoveExec
    \/ Update
    \/ UpgradeSync
    \/ UpgradeRun

Spec == Init /\ [][Next]_vars

(***************************************************************************)
(* Vocabulary of the properties.                                           *)
(***************************************************************************)
Calls == 1..Len(log)
Printed(m, at) == \E k \in 1..Len(out) : out[k].msg = m /\ out[k].at = at
IsOfficialCheck(e) == e.op = "pacman" /\ e.args[1] = "-Ss"
IsOfficialInstall(e) == e.op = "sudo" /\ e.args[2] = "-S"
IsRemoval(e) == e.op = "sudo" /\ e.args[2] \in {"-Rs", "-Rns"}
IsSync(e) == e.op = "sudo" /\ e.args[2] \in {"-Sy", "-Syy"}
IsUpgrade(e) == e.op = "sudo" /\ e.args[2] = "-Syu"
Completed(e) == e.res \in {"ok", "fail"}

(***************************************************************************)
(* C1: in an install, when the official-repo search of a package returned  *)
(* non-empty output, no git clone and no makepkg subprocess is invoked     *)
(* while that package is handled, whatever the pacman install exits with.  *)
(***************************************************************************)
C1_OfficialNeverBuilds ==
    cli.sub = "install" =>
        \A k \in Calls :
            (IsOfficialCheck(log[k]) /\ Completed(log[k]) /\ log[k].lines > 0) =>
                \A j \in Calls :
                    log[j].at = log[k].at => log[j].op \notin {"git", "makepkg"}

C1_Witness ==
    /\ cli.sub = "install" /\ pc = "done"
    /\ \E k, j \in Calls :
         /\ IsOfficialCheck(log[k]) /\ log[k].lines > 0
         /\ IsOfficialInstall(log[j]) /\ log[j].at = log[k].at /\ log[j].res = "fail"

(***************************************************************************)
(* C2: a confirmation that is not the wanted answer invokes no removal     *)
(* subprocess for the package, changes nothing and prints "Aborted".       *)
(***************************************************************************)
\* the line as typed: without its line terminator
Answer(line) ==
    IF line # <<>> /\ line[Len(line)] = "\n" THEN SubSeq(line, 1, Len(line) - 1)
    ELSE line

ExactYes(line) == Answer(line) \in {<<"y">>, <<"Y">>}

\* the line holds a single y or Y and otherwise whitespace only
TrimmedYes(line) ==
    SelectSeq(line, LAMBDA c : c \notin {" ", "\n"}) \in {<<"y">>, <<"Y">>}

RemovalCalls(l) == {k \in 1..Len(l) : IsRemoval(l[k])}

\* C2 as written: every answer other than exactly "y" or "Y" aborts, and a
\* removal is only ever invoked after exactly "y" or "Y".
C2_ExactAnswer ==
    /\ [][(pc = "rm_confirm" /\ ~ExactYes(input)) =>
            /\ pc' # "rm_exec"
            /\ log' = log /\ ws' = ws /\ cacheExists' = cacheExists
            /\ out' = Append(out, Msg("Aborted", idx))]_vars
    /\ [][RemovalCalls(log') # RemovalCalls(log) =>
            pc = "rm_exec" /\ ExactYes(input)]_vars

\* C2 (amended): every answer that is not "y" or "Y" once surrounding
\* whitespace is removed aborts: no removal subprocess, no change of the
\* system, "Aborted" printed; a removal is only invoked after such an answer.
C2_TrimmedAnswer ==
    /\ [][(pc = "rm_confirm" /\ ~TrimmedYes(input)) =>
            /\ pc' # "rm_exec"
            /\ log' = log /\ ws' = ws /\ cacheExists' = cacheExists
            /\ out' = Append(out, Msg("Aborted", idx))]_vars
    /\ [][RemovalCalls(log') # RemovalCalls(log) =>
            pc = "rm_exec" /\ TrimmedYes(input)]_vars

C2_Witness ==
    /\ cli.sub = "remove" /\ pc = "done"
    /\ Printed("Aborted", 1)
    /\ \A k \in Calls : IsRemoval(log[k]) => log[k].at # 1
    /\ \E k \in Calls : IsRemoval(log[k]) /\ log[k].at = 2

(***************************************************************************)
(* C3: an install on the AUR path deletes an existing workspace before     *)
(* git clone starts, so that no file from before the attempt is there when *)
(* the clone begins or after it.                                           *)
(***************************************************************************)
NameAt(i) == cli.packages[i]

\* the workspace is gone when the clone is about to start
DeletedBeforeClone == pc = "inst_clone" => ws[NameAt(idx)] = Absent

\* a file older than a clone attempt on its workspace does not survive it
NoStaleFiles ==
    \A k \in Calls :
        log[k].op = "git" => \A f \in ws[NameAt(log[k].at)].files : f >= log[k].at

\* the deletion of an attempt precedes its clone
DeletionPrecedesClone ==
    \A j, k \in Calls :
        (log[j].op = "remove_dir_all" /\ log[k].op = "git" /\ log[j].at = log[k].at)
            => j < k /\ log[j].res = "ok"

\* the clone of an attempt that deleted a workspace has just returned
CloneOfCleanedAttemptReturned ==
    /\ Len(log) > 0
    /\ log[Len(log)].op = "git"
    /\ \E j \in Calls : log[j].op = "remove_dir_all" /\ log[j].at = log[Len(log)].at

\* C3 as written: the workspace is deleted before the clone and recreated
\* by the attempt, without any earlier file.
C3_Recreated ==
    cli.sub = "install" =>
        /\ DeletedBeforeClone /\ NoStaleFiles /\ DeletionPrecedesClone
        /\ CloneOfCleanedAttemptReturned => ws[NameAt(log[Len(log)].at)].exists

\* C3 (amended): the workspace is deleted before the clone starts and no
\* earlier file survives; it exists again, holding only what this clone
\* wrote, when the clone exits successfully (the handler never creates it).
C3_DeletedAndFresh ==
    cli.sub = "install" =>
        /\ DeletedBeforeClone /\ NoStaleFiles /\ DeletionPrecedesClone
        /\ (CloneOfCleanedAttemptReturned /\ log[Len(log)].res = "ok")
              => ws[NameAt(log[Len(log)].at)] = Dir({log[Len(log)].at})

C3_Witness ==
    /\ cli.sub = "install" /\ pc = "inst_build" /\ idx = 2
    /\ NameAt(1) = NameAt(2)
    /\ \E k \in Calls : log[k].op = "git" /\ log[k].at = 1 /\ log[k].res = "ok"
    /\ \E k \in Calls : log[k].op = "remove_dir_all" /\ log[k].at = 2
    /\ ws[NameAt(2)] = Dir({2})

(***************************************************************************)
(* C4: the packages of an install are handled one at a time in listed      *)
(* order, and a failed pacman install, git clone or makepkg of one package *)
(* does not abort the request: the official-repo check of the next package *)
(* is invoked.                                                             *)
(***************************************************************************)
InListedOrder ==
    \A j, k \in Calls : j < k => log[j].at <= log[k].at

ChecksOwnPackage ==
    \A k \in Calls :
        /\ log[k].at \in 1..Len(cli.packages)
        /\ IsOfficialCheck(log[k]) => log[k].args = <<"-Ss", NameAt(log[k].at)>>

FailureDoesNotAbort ==
    \A k \in Calls :
        (/\ log[k].op \in {"sudo", "git", "makepkg"}
         /\ log[k].res = "fail"
         /\ log[k].at < Len(cli.packages))
            => \/ pc = "install" /\ idx = log[k].at + 1
               \/ \E j \in Calls : IsOfficialCheck(log[j]) /\ log[j].at = log[k].at + 1

C4_SequentialAndIndependent ==
    cli.sub = "install" => InListedOrder /\ ChecksOwnPackage /\ FailureDoesNotAbort

C4_Witness ==
    /\ cli.sub = "install" /\ pc = "done"
    /\ \E k, j \in Calls :
         /\ log[k].op = "git" /\ log[k].res = "fail" /\ log[k].at = 1
         /\ IsOfficialCheck(log[j]) /\ log[j].at = 2

(***************************************************************************)
(* C5: search accepts --pacman-only together with --aur-only; with         *)
(* --pacman-only the AUR request is never issued; with neither flag both   *)
(* sources are queried, the official one first.                            *)
(***************************************************************************)
C5_SearchFlags ==
    cli.sub = "search" =>
        /\ exit # 2
        /\ cli.pacman_only => \A k \in Calls : log[k].op # "http_get"
        /\ (~cli.pacman_only /\ ~cli.aur_only) =>
              /\ Len(log) >= 1 => IsOfficialCheck(log[1])
              /\ (pc = "done" /\ exit = 0) =>
                    /\ Len(log) = 2
                    /\ log[1].args = <<"-Ss", cli.query>>
                    /\ log[2].op = "http_get"

C5_Witness ==
    /\ cli.sub = "search" /\ cli.pacman_only /\ cli.aur_only
    /\ pc = "done" /\ exit = 0 /\ log = <<>>

(***************************************************************************)
(* C6: what search renders of an AUR response.                             *)
(***************************************************************************)
Received == resp[1]

Tables == {k \in 1..Len(out) : out[k].msg = "Table"}

RowsOf(n) ==
    \E k \in Tables :
        /\ Tables = {k}
        /\ Len(out[k].rows) = n
        /\ \A i \in 1..n :
             /\ out[k].rows[i].name = Received.results[i].name
             /\ out[k].rows[i].description =
                  IF Received.results[i].description = Null THEN "No description"
                  ELSE Received.results[i].description

NoRows == Tables = {} /\ Printed("NotFoundAur", 0)

\* C6 as written: resultcount = n renders min(n, 10) rows.
C6_RowsByResultcount ==
    resp # NoResp =>
        /\ Received.resultcount = 0 => NoRows
        /\ Received.resultcount > 0 => RowsOf(Min(Received.resultcount, 10))

\* C6 (amended): with resultcount = 0 "not found" is printed and no row is
\* rendered; with resultcount > 0 exactly min(m, 10) rows are rendered, m the
\* number of entries of results, in response order, a null Description shown
\* as "No description".
C6_RowsByResults ==
    resp # NoResp =>
        /\ Received.resultcount = 0 => NoRows
        /\ Received.resultcount > 0 => RowsOf(Min(Len(Received.results), 10))

C6_Witness ==
    /\ resp # NoResp /\ Received.resultcount = 11 /\ Len(Received.results) = 11
    /\ Received.results[2].description = Null
    /\ \E k \in Tables :
         Len(out[k].rows) = 10 /\ out[k].rows[2].description = "No description"

(***************************************************************************)
(* C7: in install, remove, update and upgrade a non-zero exit status of a  *)
(* subprocess is reported by a printed failure message and never by the    *)
(* exit code of the process.                                               *)
(***************************************************************************)
FailureMessages ==
    {"FailedOfficial", "GitCloneFailed", "FailedAur", "FailedRemove",
     "DatabaseSyncFailed", "UpgradeFailed"}

FailureMessageOf(e) ==
    CASE e.op = "git" -> "GitCloneFailed"
      [] e.op = "makepkg" -> "FailedAur"
      [] IsOfficialInstall(e) -> "FailedOfficial"
      [] IsRemoval(e) -> "FailedRemove"
      [] IsSync(e) -> "DatabaseSyncFailed"
      [] IsUpgrade(e) -> "UpgradeFailed"
      [] OTHER -> "none"

ExitReflectsOnlyErrors ==
    (pc = "done" /\ exit # 0) =>
        \/ cli.sub \notin {"search", "install", "remove", "update", "upgrade"}
        \/ \E k \in Calls : log[k].res \in {"spawnerr", "ioerr", "neterr", "jsonerr"}

\* C7 as written: every subprocess that exits non-zero has a failure message
\* printed for it by the time the command ends successfully.
C7_EveryNonZeroReported ==
    cli.sub \in {"install", "remove", "update", "upgrade"} =>
        /\ ExitReflectsOnlyErrors
        /\ (pc = "done" /\ exit = 0) =>
             \A k \in Calls :
                 log[k].res = "fail" =>
                     \E m \in FailureMessages : Printed(m, log[k].at)

\* C7 (amended): every subprocess whose exit status the handler inspects
\* (all but the official-repo search of install) has its failure message
\* printed when it exits non-zero, and no non-zero exit makes the process
\* exit with a failure code.
C7_InspectedNonZeroReported ==
    cli.sub \in {"install", "remove", "update", "upgrade"} =>
        /\ ExitReflectsOnlyErrors
        /\ \A k \in Calls :
             (log[k].res = "fail" /\ ~IsOfficialCheck(log[k])) =>
                 Printed(FailureMessageOf(log[k]), log[k].at)

C7_Witness ==
    /\ cli.sub = "upgrade" /\ pc = "done" /\ exit = 0
    /\ Len(log) = 2 /\ log[1].res = "fail" /\ log[2].res = "fail"
    /\ Printed("DatabaseSyncFailed", 0) /\ Printed("UpgradeFailed", 0)

(***************************************************************************)
(* C8: a fatal error (a subprocess that cannot be run, a failed filesystem *)
(* or stdin/stdout call, a network or JSON error) ends the command: the    *)
(* failing call is the last external call of the invocation and the        *)
(* process exits with a failure code after printing the error.             *)
(***************************************************************************)
C8_FatalUnwinds ==
    \A k \in Calls :
        log[k].res \in {"spawnerr", "ioerr", "neterr", "jsonerr"} =>
            /\ k = Len(log)
            /\ pc = "done"
            /\ exit = 1
            /\ out[Len(out)].msg = "Error"

C8_Witness ==
    /\ cli.sub = "install" /\ Len(cli.packages) = 2 /\ pc = "done"
    /\ Len(log) > 0
    /\ log[Len(log)].op = "remove_dir_all" /\ log[Len(log)].res = "ioerr"
    /\ log[Len(log)].at = 1

(***************************************************************************)
(* C9: upgrade runs the database sync (-Syy with full, -Sy without) first  *)
(* and, once it has run to completion, invokes the full upgrade exactly    *)
(* once, whether the sync succeeded or not.                                *)
(***************************************************************************)
C9_UpgradeAfterSync ==
    cli.sub = "upgrade" =>
        /\ Len(log) <= 2
        /\ Len(log) >= 1 =>
              log[1].args = <<"pacman", IF cli.full THEN "-Syy" ELSE "-Sy">>
        /\ Len(log) = 2 =>
              Completed(log[1]) /\ log[2].args = <<"pacman", "-Syu", "--noconfirm">>
        /\ (pc = "done" /\ Len(log) >= 1 /\ Completed(log[1])) => Len(log) = 2
        /\ (Len(log) >= 1 /\ Completed(log[1])) =>
              Printed(IF log[1].res = "ok" THEN "DatabaseSynced"
                      ELSE "DatabaseSyncFailed", 0)

C9_Witness ==
    /\ cli.sub = "upgrade" /\ cli.full /\ pc = "done"
    /\ Len(log) = 2 /\ log[1].res = "fail" /\ IsUpgrade(log[2])

(***************************************************************************)
(* C10: on the AUR path makepkg is invoked only after the git clone of the *)
(* same attempt succeeded, with -sci under cascade and -si otherwise; a    *)
(* failed clone prints an error, skips makepkg and returns normally.       *)
(***************************************************************************)
C10_BuildOnlyAfterClone ==
    cli.sub = "install" =>
        /\ \A k \in Calls :
             log[k].op = "makepkg" =>
                 /\ k > 1
                 /\ log[k - 1].op = "git"
                 /\ log[k - 1].at = log[k].at
                 /\ log[k - 1].res = "ok"
                 /\ log[k].args = <<IF cli.cascade THEN "-sci" ELSE "-si", "--noconfirm">>
        /\ \A k \in Calls :
             (log[k].op = "git" /\ log[k].res = "fail") =>
                 /\ Printed("GitCloneFailed", log[k].at)
                 /\ \A j \in Calls : log[j].op = "makepkg" => log[j].at # log[k].at
                 /\ k = Len(log) =>
                       \/ pc = "install" /\ idx = log[k].at + 1
                       \/ pc = "done" /\ exit = 0

C10_Witness ==
    /\ cli.sub = "install" /\ cli.cascade /\ pc = "done" /\ exit = 0
    /\ \E k, j \in Calls :
         /\ log[k].op = "git" /\ log[k].res = "fail" /\ log[k].at = 1
         /\ log[j].op = "makepkg" /\ log[j].at = 2
            /\ log[j].args = <<"-sci", "--noconfirm">>
====
